---------------------------- MODULE Spec2Model ----------------------------
(***************************************************************************)
(* A model of the steingass-scraper entry pipeline: the language           *)
(* classifier (langs.rs), the text canonicalizers (lib.rs, hw_full.rs,     *)
(* hw_per.rs, hw_lat.rs, defs.rs), the renderer wrapper pandoc() and the   *)
(* per-entry body of main.                                                 *)
(*                                                                         *)
(* A text is a sequence of characters.  A character is a one-character     *)
(* string for printable ASCII (U+0020 is " ", U+0022 is "\"", U+0065 is    *)
(* "e") and "\n", "\t" for the two control characters used; every other    *)
(* scalar value U+XXXX is the string "U+XXXX".                             *)
(***************************************************************************)
EXTENDS Integers, Sequences, FiniteSets, TLC

VARIABLES
    op,        \* the library function applied last ("none" before any call)
    arg,       \* its argument
    res,       \* its outcome: Ok(v), Err(e) or Panic(m)
    rendered,  \* the renderer outcomes of the pandoc() calls made so far
    pc,        \* position in the per-entry body of main
    entry,     \* the fields gathered for the Entry, and whether it was built
    db,        \* the rows inserted by insert_row
    batch,     \* the rows a character test iterates over
    ei,        \* index of the row under check
    ci,        \* index of the character under check
    reported,  \* the (id, codepoint) pairs the assertion message has carried
    chk,       \* state of the character test: "idle", "running", "passed", "panicked"
    page,      \* the page the loop of main is at
    results,   \* the html of the entries found on the fetched page
    ri,        \* index of the entry the inner loop of main is at
    nfetched,  \* how many pages main has fetched
    lastFetched \* the page fetched last (0 before any)

vars ==
    <<op, arg, res, rendered, pc, entry, db, batch, ei, ci, reported, chk,
      page, results, ri, nfetched, lastFetched>>

callVars == <<op, arg, res, rendered>>
entryVars == <<pc, entry, db>>
checkVars == <<batch, ei, ci, reported, chk>>
mainVars == <<page, results, ri, nfetched, lastFetched>>

-----------------------------------------------------------------------------
(* Bounds of the model.                                                    *)

\* longest enumerated language-tag text
MaxTagLen == 3

-----------------------------------------------------------------------------
(* Outcomes of a call and optional values.                                 *)

Ok(v) == [tag |-> "Ok", val |-> v]

Err(e) == [tag |-> "Err", val |-> e]

Panic(m) == [tag |-> "Panic", val |-> m]

None == [some |-> FALSE]

Some(x) == [some |-> TRUE, val |-> x]

\* all sequences over S of length at most n
SeqsUpTo(S, n) == UNION {[1..k -> S] : k \in 0..n}

RECURSIVE Concat(_)
\* the texts of a list one after the other
Concat(ps) == IF ps = <<>> THEN <<>> ELSE Head(ps) \o Concat(Tail(ps))

\* the positions at which pat occurs in s
Occurrences(s, pat) ==
    {i \in 1..(Len(s) - Len(pat) + 1) : SubSeq(s, i, i + Len(pat) - 1) = pat}

\* every character of the text t is in the set S
AllIn(t, S) == \A i \in 1..Len(t) : t[i] \in S

\* how many times the character c occurs in s
Count(s, c) == Cardinality({i \in 1..Len(s) : s[i] = c})

-----------------------------------------------------------------------------
(* The str methods the code uses.                                          *)

\* char::is_whitespace: the White_Space code points
WhiteSpace ==
    {" ", "\t", "\n", "\r", "\f", "U+000B", "U+0085", "U+00A0", "U+1680",
     "U+2000", "U+2001", "U+2002", "U+2003", "U+2004", "U+2005", "U+2006",
     "U+2007", "U+2008", "U+2009", "U+200A", "U+2028", "U+2029", "U+202F",
     "U+205F", "U+3000"}

RECURSIVE trim_start_in(_, _)
\* str::trim_start_matches over a set of characters
trim_start_in(s, C) ==
    IF s # <<>> /\ Head(s) \in C THEN trim_start_in(Tail(s), C) ELSE s

RECURSIVE trim_end_in(_, _)
\* str::trim_end_matches over a set of characters
trim_end_in(s, C) ==
    IF s # <<>> /\ s[Len(s)] \in C
    THEN trim_end_in(SubSeq(s, 1, Len(s) - 1), C)
    ELSE s

trim_start(s) == trim_start_in(s, WhiteSpace)

trim(s) == trim_end_in(trim_start_in(s, WhiteSpace), WhiteSpace)

trim_start_matches(s, c) == trim_start_in(s, {c})

trim_end_matches(s, c) == trim_end_in(s, {c})

RECURSIVE replace_pass(_, _, _)
\* one left-to-right pass of replacements
replace_pass(s, from, to) ==
    IF Len(s) < Len(from) THEN s
    ELSE IF SubSeq(s, 1, Len(from)) = from
         THEN to \o replace_pass(SubSeq(s, Len(from) + 1, Len(s)), from, to)
         ELSE <<Head(s)>> \o replace_pass(Tail(s), from, to)

RECURSIVE replace_rescanning(_, _, _)
\* a replacement that scans its own output again until nothing matches
replace_rescanning(s, from, to) ==
    LET r == replace_pass(s, from, to)
    IN  IF r = s THEN s ELSE replace_rescanning(r, from, to)

RECURSIVE replace(_, _, _)
\* str::replace: every non-overlapping match of the non-empty pattern
\* `from`, found left to right, is replaced by `to`
replace(s, from, to) ==
    IF Len(s) < Len(from) THEN s
    ELSE IF SubSeq(s, 1, Len(from)) = from
         THEN to \o replace(SubSeq(s, Len(from) + 1, Len(s)), from, to)
         ELSE <<Head(s)>> \o replace(Tail(s), from, to)

-----------------------------------------------------------------------------
(* langs.rs: the Lang taxonomy.                                            *)

Lang ==
    {"Unmarked",
     "Arabic", "English", "Greek", "Hebrew", "Hindi", "Latin", "Mongolian",
     "Persian", "Portuguese", "Russian", "Sanskrit", "Spanish", "Syriac",
     "Turkish", "Urdu",
     "ArabicGreek", "ArabicTurkish",
     "PersianArabic", "PersianGreek", "PersianHindi", "PersianMongolian",
     "PersianRussian", "PersianTurkish",
     "PersianArabicGreek", "PersianArabicHindi", "PersianArabicTurkish"}

\* #[default]
Lang_default == "Unmarked"

\* as_str with one display string written in the order of the variant's name
as_str_name_order(self) ==
    CASE self = "Unmarked" -> "Unmarked (i.e., Persian)"
      [] self = "Arabic" -> "Arabic"
      [] self = "English" -> "English"
      [] self = "Greek" -> "Greek"
      [] self = "Hebrew" -> "Hebrew"
      [] self = "Hindi" -> "Hindi"
      [] self = "Latin" -> "Latin"
      [] self = "Mongolian" -> "Mongolian"
      [] self = "Persian" -> "Persian"
      [] self = "Portuguese" -> "Portuguese"
      [] self = "Russian" -> "Russian"
      [] self = "Sanskrit" -> "Sanskrit"
      [] self = "Spanish" -> "Spanish"
      [] self = "Syriac" -> "Syriac"
      [] self = "Turkish" -> "Turkish"
      [] self = "Urdu" -> "Urdu"
      [] self = "ArabicGreek" -> "Arabic & Greek"
      [] self = "ArabicTurkish" -> "Arabic & Turkish"
      [] self = "PersianArabic" -> "Arabic & Persian"
      [] self = "PersianGreek" -> "Greek & Persian"
      [] self = "PersianHindi" -> "Hindi & Persian"
      [] self = "PersianMongolian" -> "Mongolian & Persian"
      [] self = "PersianRussian" -> "Russian & Persian"
      [] self = "PersianTurkish" -> "Persian & Turkish"
      [] self = "PersianArabicGreek" -> "Arabic & Greek & Persian"
      [] self = "PersianArabicHindi" -> "Arabic & Hindi & Persian"
      [] self = "PersianArabicTurkish" -> "Arabic & Persian & Turkish"

\* Lang::as_str
as_str(self) ==
    CASE self = "Unmarked" -> "Unmarked (i.e., Persian)"
      [] self = "Arabic" -> "Arabic"
      [] self = "English" -> "English"
      [] self = "Greek" -> "Greek"
      [] self = "Hebrew" -> "Hebrew"
      [] self = "Hindi" -> "Hindi"
      [] self = "Latin" -> "Latin"
      [] self = "Mongolian" -> "Mongolian"
      [] self = "Persian" -> "Persian"
      [] self = "Portuguese" -> "Portuguese"
      [] self = "Russian" -> "Russian"
      [] self = "Sanskrit" -> "Sanskrit"
      [] self = "Spanish" -> "Spanish"
      [] self = "Syriac" -> "Syriac"
      [] self = "Turkish" -> "Turkish"
      [] self = "Urdu" -> "Urdu"
      [] self = "ArabicGreek" -> "Arabic & Greek"
      [] self = "ArabicTurkish" -> "Arabic & Turkish"
      [] self = "PersianArabic" -> "Arabic & Persian"
      [] self = "PersianGreek" -> "Greek & Persian"
      [] self = "PersianHindi" -> "Hindi & Persian"
      [] self = "PersianMongolian" -> "Mongolian & Persian"
      [] self = "PersianRussian" -> "Persian & Russian"
      [] self = "PersianTurkish" -> "Persian & Turkish"
      [] self = "PersianArabicGreek" -> "Arabic & Greek & Persian"
      [] self = "PersianArabicHindi" -> "Arabic & Hindi & Persian"
      [] self = "PersianArabicTurkish" -> "Arabic & Persian & Turkish"

\* from_str that rejects what is no display string
from_str_strict(s) ==
    (CASE s = "Arabic" -> Ok("Arabic")
         [] s = "English" -> Ok("English")
         [] s = "Greek" -> Ok("Greek")
         [] s = "Hebrew" -> Ok("Hebrew")
         [] s = "Hindi" -> Ok("Hindi")
         [] s = "Latin" -> Ok("Latin")
         [] s = "Mongolian" -> Ok("Mongolian")
         [] s = "Persian" -> Ok("Persian")
         [] s = "Portuguese" -> Ok("Portuguese")
         [] s = "Russian" -> Ok("Russian")
         [] s = "Sanskrit" -> Ok("Sanskrit")
         [] s = "Spanish" -> Ok("Spanish")
         [] s = "Syriac" -> Ok("Syriac")
         [] s = "Turkish" -> Ok("Turkish")
         [] s = "Urdu" -> Ok("Urdu")
         [] s = "Arabic & Greek" -> Ok("ArabicGreek")
         [] s = "Arabic & Turkish" -> Ok("ArabicTurkish")
         [] s = "Arabic & Persian" -> Ok("PersianArabic")
         [] s = "Greek & Persian" -> Ok("PersianGreek")
         [] s = "Hindi & Persian" -> Ok("PersianHindi")
         [] s = "Mongolian & Persian" -> Ok("PersianMongolian")
         [] s = "Persian & Russian" -> Ok("PersianRussian")
         [] s = "Persian & Turkish" -> Ok("PersianTurkish")
         [] s = "Arabic & Greek & Persian" -> Ok("PersianArabicGreek")
         [] s = "Arabic & Hindi & Persian" -> Ok("PersianArabicHindi")
         [] s = "Arabic & Persian & Turkish" -> Ok("PersianArabicTurkish")
         [] s = "Unmarked (i.e., Persian)" -> Ok("Unmarked")
         [] OTHER -> Err("LangParseError"))

\* <Lang as FromStr>::from_str; it has no Err arm
from_str(s) ==
    Ok(CASE s = "Arabic" -> "Arabic"
         [] s = "English" -> "English"
         [] s = "Greek" -> "Greek"
         [] s = "Hebrew" -> "Hebrew"
         [] s = "Hindi" -> "Hindi"
         [] s = "Latin" -> "Latin"
         [] s = "Mongolian" -> "Mongolian"
         [] s = "Persian" -> "Persian"
         [] s = "Portuguese" -> "Portuguese"
         [] s = "Russian" -> "Russian"
         [] s = "Sanskrit" -> "Sanskrit"
         [] s = "Spanish" -> "Spanish"
         [] s = "Syriac" -> "Syriac"
         [] s = "Turkish" -> "Turkish"
         [] s = "Urdu" -> "Urdu"
         [] s = "Arabic & Greek" -> "ArabicGreek"
         [] s = "Arabic & Turkish" -> "ArabicTurkish"
         [] s = "Arabic & Persian" -> "PersianArabic"
         [] s = "Greek & Persian" -> "PersianGreek"
         [] s = "Hindi & Persian" -> "PersianHindi"
         [] s = "Mongolian & Persian" -> "PersianMongolian"
         [] s = "Persian & Russian" -> "PersianRussian"
         [] s = "Persian & Turkish" -> "PersianTurkish"
         [] s = "Arabic & Greek & Persian" -> "PersianArabicGreek"
         [] s = "Arabic & Hindi & Persian" -> "PersianArabicHindi"
         [] s = "Arabic & Persian & Turkish" -> "PersianArabicTurkish"
         [] OTHER -> "Unmarked")

\* the patterns of the match arms of get_lang (the raw codes)
RawCodes ==
    {<<"A">>, <<"B">>, <<"E">>, <<"G">>, <<"H", "E">>, <<"H">>, <<"L">>,
     <<"M">>, <<"P">>, <<"P", "O", "R", "T">>, <<"R">>, <<"S">>,
     <<"S", "P">>, <<"S", "Y">>, <<"T">>, <<"U">>,
     <<"A", " ", "G">>, <<"A", " ", "T">>,
     <<"a">>, <<"U+0101">>, <<"o">>, <<"A", " ", "a">>, <<"A", " ", "P">>,
     <<"g">>, <<"h">>, <<"m">>, <<"r">>, <<"t">>,
     <<"g", " ", "a">>, <<"a", " ", "h">>,
     <<"a", " ", "t">>, <<"t", " ", "a">>, <<"a", " ", "p", " ", "t">>}

\* the match of get_lang on the normalized tag text
match_lang(trimmed) ==
    CASE trimmed = <<"A">> \/ trimmed = <<"B">> -> Ok("Arabic")
      [] trimmed = <<"E">> -> Ok("English")
      [] trimmed = <<"G">> -> Ok("Greek")
      [] trimmed = <<"H", "E">> -> Ok("Hebrew")
      [] trimmed = <<"H">> -> Ok("Hindi")
      [] trimmed = <<"L">> -> Ok("Latin")
      [] trimmed = <<"M">> -> Ok("Mongolian")
      [] trimmed = <<"P">> -> Ok("Persian")
      [] trimmed = <<"P", "O", "R", "T">> -> Ok("Portuguese")
      [] trimmed = <<"R">> -> Ok("Russian")
      [] trimmed = <<"S">> -> Ok("Sanskrit")
      [] trimmed = <<"S", "P">> -> Ok("Spanish")
      [] trimmed = <<"S", "Y">> -> Ok("Syriac")
      [] trimmed = <<"T">> -> Ok("Turkish")
      [] trimmed = <<"U">> -> Ok("Urdu")
      [] trimmed = <<"A", " ", "G">> -> Ok("ArabicGreek")
      [] trimmed = <<"A", " ", "T">> -> Ok("ArabicTurkish")
      [] \/ trimmed = <<"a">>
         \/ trimmed = <<"U+0101">>
         \/ trimmed = <<"o">>
         \/ trimmed = <<"A", " ", "a">>
         \/ trimmed = <<"A", " ", "P">> -> Ok("PersianArabic")
      [] trimmed = <<"g">> -> Ok("PersianGreek")
      [] trimmed = <<"h">> -> Ok("PersianHindi")
      [] trimmed = <<"m">> -> Ok("PersianMongolian")
      [] trimmed = <<"r">> -> Ok("PersianRussian")
      [] trimmed = <<"t">> -> Ok("PersianTurkish")
      [] trimmed = <<"g", " ", "a">> -> Ok("PersianArabicGreek")
      [] trimmed = <<"a", " ", "h">> -> Ok("PersianArabicHindi")
      [] \/ trimmed = <<"a", " ", "t">>
         \/ trimmed = <<"t", " ", "a">>
         \/ trimmed = <<"a", " ", "p", " ", "t">> -> Ok("PersianArabicTurkish")
      [] OTHER -> Panic(<<"Unrecognized language", trimmed>>)

\* get_lang that removes at most one trailing period
get_lang_one_period(tag) ==
    IF tag.some
    THEN LET t == trim(tag.val)
         IN  match_lang(IF t # <<>> /\ t[Len(t)] = "."
                        THEN SubSeq(t, 1, Len(t) - 1) ELSE t)
    ELSE Ok("Unmarked")

\* get_lang that takes an empty tag text for an absent tag
get_lang_empty_unmarked(tag) ==
    IF tag.some /\ trim_end_matches(trim(tag.val), ".") # <<>>
    THEN match_lang(trim_end_matches(trim(tag.val), "."))
    ELSE Ok("Unmarked")

\* get_lang whose fall-through arm keeps the default
get_lang_absorbing(tag) ==
    IF tag.some
    THEN LET m == match_lang(trim_end_matches(trim(tag.val), "."))
         IN  IF m.tag = "Panic" THEN Ok("Unmarked") ELSE m
    ELSE Ok("Unmarked")

\* get_lang that classifies the raw code "r" as Russian
get_lang_r_is_russian(tag) ==
    IF tag.some
    THEN LET trimmed == trim_end_matches(trim(tag.val), ".")
         IN  IF trimmed = <<"r">> THEN Ok("Russian") ELSE match_lang(trimmed)
    ELSE Ok("Unmarked")

\* get_lang that does not trim the whitespace around the tag text
get_lang_untrimmed(tag) ==
    IF tag.some
    THEN match_lang(trim_end_matches(tag.val, "."))
    ELSE Ok("Unmarked")

\* get_lang that starts from Persian instead of the default
get_lang_absent_persian(tag) ==
    IF tag.some
    THEN match_lang(trim_end_matches(trim(tag.val), "."))
    ELSE Ok("Persian")

\* get_lang; `tag` is the text of the first <lang> element of the parsed
\* fragment, None when the selector finds no element
get_lang(tag) ==
    IF tag.some
    THEN LET text == tag.val
             trimmed == trim_end_matches(trim(text), ".")
         IN  match_lang(trimmed)
    ELSE Ok("Unmarked")

-----------------------------------------------------------------------------
(* The state before any call, shared by every specification.               *)

\* no call has been made yet
NoResult == [tag |-> "none", val |-> <<>>]

NoEntry ==
    [lang |-> None, headword_full |-> None, headword_persian |-> None,
     headword_latin |-> None, definitions |-> None, built |-> FALSE]

InitIdle ==
    /\ op = "none"
    /\ arg = None
    /\ res = NoResult
    /\ rendered = <<>>
    /\ pc = "idle"
    /\ entry = NoEntry
    /\ db = <<>>
    /\ batch = <<>>
    /\ ei = 0
    /\ ci = 0
    /\ reported = <<>>
    /\ chk = "idle"
    /\ page = 0
    /\ results = <<>>
    /\ ri = 0
    /\ nfetched = 0
    /\ lastFetched = 0

-----------------------------------------------------------------------------
(* SpecLang: the language classifier applied to enumerated inputs.  Each    *)
(* behaviour applies one function to one input.                            *)

TagAlphabet == {"A", "T", "a", " ", ".", "z"}

\* enumerated tag texts, and every raw code with whitespace and periods
\* around it
TagTexts ==
    SeqsUpTo(TagAlphabet, MaxTagLen)
    \cup {pre \o k \o suf :
             pre \in {<<>>, <<" ">>},
             k \in RawCodes,
             suf \in {<<>>, <<".">>, <<".", ".">>, <<".", " ">>, <<" ", ".">>}}

Tags == {None} \cup {Some(t) : t \in TagTexts}

DisplayStrings == {as_str(v) : v \in Lang}

ParseInputs ==
    DisplayStrings
    \cup {"", "Unmarked", "arabic", "Persian & Arabic", "Arabic & Greek "}

CallAsStr ==
    /\ op = "none"
    /\ \E v \in Lang :
          /\ op' = "as_str"
          /\ arg' = v
          /\ res' = Ok(as_str(v))
    /\ UNCHANGED <<mainVars, rendered, entryVars, checkVars>>

CallFromStr ==
    /\ op = "none"
    /\ \E s \in ParseInputs :
          /\ op' = "from_str"
          /\ arg' = s
          /\ res' = from_str(s)
    /\ UNCHANGED <<mainVars, rendered, entryVars, checkVars>>

CallGetLang ==
    /\ op = "none"
    /\ \E tag \in Tags :
          /\ op' = "get_lang"
          /\ arg' = tag
          /\ res' = get_lang(tag)
    /\ UNCHANGED <<mainVars, rendered, entryVars, checkVars>>

NextLang == CallAsStr \/ CallFromStr \/ CallGetLang

SpecLang == InitIdle /\ [][NextLang]_vars

\* n periods
Dots(n) == [i \in 1..n |-> "."]

\* C1: parsing the display string of a variant gives the variant back, and
\* displaying the parse of a canonical display string gives the string back.
C1_RoundTrip ==
    /\ op = "as_str" => from_str(res.val) = Ok(arg)
    /\ (op = "from_str" /\ arg \in DisplayStrings) =>
          (res.tag = "Ok" /\ as_str(res.val) = arg)

C1_Witness ==
    /\ op = "as_str"
    /\ arg = "PersianRussian"
    /\ res = Ok("Persian & Russian")

C3_UnknownTagIsFatal ==
    (/\ op = "get_lang"
     /\ arg.some
     /\ trim_end_matches(trim(arg.val), ".") # <<>>
     /\ trim_end_matches(trim(arg.val), ".") \notin RawCodes) =>
        res.tag = "Panic"

C3_Witness ==
    /\ op = "get_lang"
    /\ arg = Some(<<"z", "a">>)
    /\ res.tag = "Panic"

\* C4 as claimed: exactly one trailing period is removed before the lookup,
\* so a raw code followed by two or more periods is rejected.
C4_OnePeriodRemoved ==
    (/\ op = "get_lang"
     /\ arg.some
     /\ \E k \in RawCodes, n \in 2..Len(arg.val) :
           trim(arg.val) = k \o Dots(n)) =>
        res.tag = "Panic"

\* C4 amended: the tag text is trimmed of surrounding whitespace and then of
\* all its trailing periods, so a raw code followed by any number of periods
\* classifies as the raw code alone does; whitespace left before a period
\* is not removed, and such a text is rejected.
C4_AllPeriodsRemoved ==
    /\ (op = "get_lang" /\ arg.some) =>
          \A k \in RawCodes, n \in 0..Len(arg.val) :
              trim(arg.val) = k \o Dots(n) => res = get_lang(Some(k))
    /\ (op = "get_lang" /\ arg.some) =>
          \A k \in RawCodes :
              trim(arg.val) = k \o <<" ", ".">> => res.tag = "Panic"

C4_Witness ==
    /\ op = "get_lang"
    /\ arg = Some(<<"A", ".", ".">>)
    /\ res = Ok("Arabic")

\* C11: Lang has exactly 27 variants and get_lang is onto it: whatever
\* get_lang returns is a variant, an absent tag gives Unmarked, and each of
\* the other 26 variants is the class of at least one raw code; so the
\* classes get_lang can produce are as many as the variants.
C11_ClassificationOnto ==
    /\ Cardinality(Lang) = 27
    /\ (op = "get_lang" /\ res.tag = "Ok") => res.val \in Lang
    /\ get_lang(None) = Ok("Unmarked")
    /\ \A v \in Lang \ {"Unmarked"} :
          \E k \in RawCodes : get_lang(Some(k)) = Ok(v)
    /\ Cardinality({get_lang(t).val : t \in {u \in Tags : get_lang(u).tag = "Ok"}})
          = Cardinality(Lang)

C11_Witness ==
    /\ op = "get_lang"
    /\ arg = Some(<<"r">>)
    /\ res = Ok("PersianRussian")

\* the language names, from which the names of the variants are made
LangNames ==
    {"Arabic", "English", "Greek", "Hebrew", "Hindi", "Latin", "Mongolian",
     "Persian", "Portuguese", "Russian", "Sanskrit", "Spanish", "Syriac",
     "Turkish", "Urdu"}

\* the spelling of a language name
Spelling(name) ==
    CASE name = "Arabic" -> <<"A", "r", "a", "b", "i", "c">>
      [] name = "English" -> <<"E", "n", "g", "l", "i", "s", "h">>
      [] name = "Greek" -> <<"G", "r", "e", "e", "k">>
      [] name = "Hebrew" -> <<"H", "e", "b", "r", "e", "w">>
      [] name = "Hindi" -> <<"H", "i", "n", "d", "i">>
      [] name = "Latin" -> <<"L", "a", "t", "i", "n">>
      [] name = "Mongolian" -> <<"M", "o", "n", "g", "o", "l", "i", "a", "n">>
      [] name = "Persian" -> <<"P", "e", "r", "s", "i", "a", "n">>
      [] name = "Portuguese" ->
            <<"P", "o", "r", "t", "u", "g", "u", "e", "s", "e">>
      [] name = "Russian" -> <<"R", "u", "s", "s", "i", "a", "n">>
      [] name = "Sanskrit" -> <<"S", "a", "n", "s", "k", "r", "i", "t">>
      [] name = "Spanish" -> <<"S", "p", "a", "n", "i", "s", "h">>
      [] name = "Syriac" -> <<"S", "y", "r", "i", "a", "c">>
      [] name = "Turkish" -> <<"T", "u", "r", "k", "i", "s", "h">>
      [] name = "Urdu" -> <<"U", "r", "d", "u">>

RECURSIVE StrOf(_)
\* the string spelt by a sequence of characters
StrOf(cs) == IF cs = <<>> THEN "" ELSE Head(cs) \o StrOf(Tail(cs))

\* the letters in alphabetical order
Letters ==
    <<"a", "b", "c", "d", "e", "f", "g", "h", "i", "j", "k", "l", "m", "n",
      "o", "p", "q", "r", "s", "t", "u", "v", "w", "x", "y", "z">>

Capitals ==
    <<"A", "B", "C", "D", "E", "F", "G", "H", "I", "J", "K", "L", "M", "N",
      "O", "P", "Q", "R", "S", "T", "U", "V", "W", "X", "Y", "Z">>

\* the place of a letter in the alphabet, capital or not
Rank(c) == CHOOSE i \in 1..26 : Letters[i] = c \/ Capitals[i] = c

RECURSIVE SpeltBefore(_, _)
\* a comes strictly before b in alphabetical order
SpeltBefore(a, b) ==
    IF b = <<>> THEN FALSE
    ELSE IF a = <<>> THEN TRUE
    ELSE IF Rank(Head(a)) # Rank(Head(b)) THEN Rank(Head(a)) < Rank(Head(b))
    ELSE SpeltBefore(Tail(a), Tail(b))

\* the sequences that list each member of the set S once
Listings(S) ==
    {f \in [1..Cardinality(S) -> S] : \A i, j \in DOMAIN f : f[i] = f[j] => i = j}

RECURSIVE Join(_, _)
\* the strings of a list joined by a separator
Join(names, sep) ==
    IF Len(names) = 1 THEN names[1]
    ELSE names[1] \o sep \o Join(Tail(names), sep)

\* the languages the name of a variant denotes: the names that, written
\* one after the other with nothing in between, give the variant's name
Components(v) ==
    CHOOSE S \in {T \in SUBSET LangNames : Cardinality(T) \in 1..3} :
        \E f \in Listings(S) : Join(f, "") = v

\* the members of S in ascending alphabetical order
Ascending(S) ==
    CHOOSE f \in Listings(S) :
        \A i \in 1..(Len(f) - 1) : SpeltBefore(Spelling(f[i]), Spelling(f[i + 1]))

\* C12: the display string of a variant other than Unmarked lists the
\* languages the variant's name denotes, each once, in strictly ascending
\* alphabetical order, joined by " & ".
C12_DisplayAlphabetical ==
    /\ \A n \in LangNames : StrOf(Spelling(n)) = n
    /\ (op = "as_str" /\ arg # "Unmarked") =>
          /\ \E S \in {T \in SUBSET LangNames : Cardinality(T) \in 1..3} :
                \E f \in Listings(S) : Join(f, "") = arg
          /\ res = Ok(Join(Ascending(Components(arg)), " & "))

C12_Witness ==
    /\ op = "as_str"
    /\ arg = "PersianArabicTurkish"
    /\ res = Ok("Arabic & Persian & Turkish")

\* the raw tag text "A T", with or without whitespace around it and with
\* or without one period at its end
IsTagAT(text) ==
    trim(text) \in {<<"A", " ", "T">>, <<"A", " ", "T", ".">>}

\* C13: the tag text "A T", with or without surrounding whitespace and one
\* trailing period, classifies as ArabicTurkish, displayed "Arabic & Turkish".
C13_ArabicTurkish ==
    (op = "get_lang" /\ arg.some /\ IsTagAT(arg.val)) =>
        (res = Ok("ArabicTurkish") /\ as_str(res.val) = "Arabic & Turkish")

C13_Witness ==
    /\ op = "get_lang"
    /\ arg = Some(<<" ", "A", " ", "T", ".", " ">>)
    /\ res = Ok("ArabicTurkish")

\* C14: a fragment without a language-tag element classifies as Unmarked,
\* the default value of Lang, displayed "Unmarked (i.e., Persian)".
C14_AbsentTagIsUnmarked ==
    (op = "get_lang" /\ ~arg.some) =>
        /\ res = Ok("Unmarked")
        /\ res.val = Lang_default
        /\ as_str(res.val) = "Unmarked (i.e., Persian)"

C14_Witness ==
    /\ op = "get_lang"
    /\ arg = None
    /\ res = Ok(Lang_default)

\* C23: from_str returns Ok for every string, never a LangParseError; a
\* string that is not the display string of one of the 26 variants other
\* than Unmarked (the empty string, a misspelt display string) gives
\* Ok(Unmarked).
C23_FromStrTotal ==
    op = "from_str" =>
        /\ res.tag = "Ok"
        /\ res.val \in Lang
        /\ arg \notin {as_str(v) : v \in Lang \ {"Unmarked"}} =>
              res = Ok("Unmarked")

C23_Witness ==
    /\ op = "from_str"
    /\ arg = "Persian & Arabic"
    /\ res = Ok("Unmarked")

-----------------------------------------------------------------------------
(* The text canonicalizers: the baseline clean_simple (lib.rs) and the     *)
(* four profiles clean_hw_full (hw_full.rs), clean_hw_per (hw_per.rs),     *)
(* clean_hw_lat (hw_lat.rs) and clean_defs (defs.rs).                      *)

RECURSIVE apply_swaps(_, _)
\* for (from, to) in swaps { cleaned = cleaned.replace(from, to); }
apply_swaps(cleaned, swaps) ==
    IF swaps = <<>> THEN cleaned
    ELSE apply_swaps(replace(cleaned, Head(swaps)[1], Head(swaps)[2]),
                     Tail(swaps))

\* the replacements of clean_simple after the trim, in order
simple_swaps ==
    << <<<<"U+200D">>, <<>>>>,            \* no_zwj
       <<<<"U+200F">>, <<>>>>,            \* no_rlm
       <<<<"U+FBA9">>, <<"U+0647">>>>,    \* swap_h_med
       <<<<"U+FB7D">>, <<"U+0686">>>>,    \* swap_ch
       <<<<"U+FB58">>, <<"U+067E">>>>,    \* swap_p_init
       <<<<"U+FB59">>, <<"U+067E">>>>,    \* swap_p_med
       <<<<"U+FB8A">>, <<"U+0698">>>>,    \* swap_zh
       <<<<"U+FB94">>, <<"U+06AF">>>>,    \* swap_g
       <<<<"U+FB8B">>, <<"U+0698">>>>,    \* swap_zh_fin
       <<<<"U+FEEB">>, <<"U+0647">>>>,    \* swap_h_init
       <<<<"U+FE81">>, <<"U+0622">>>>,    \* swap_madda
       <<<<"U+FE8A">>, <<"U+0626">>>>,    \* swap_hamza_y
       <<<<"U+06B1">>, <<"U+06AF">>>>,    \* swap_ngoeh
       <<<<"U+06BE">>, <<"U+0647">>>>,    \* swap_h_do
       <<<<"U+066E">>, <<"U+0628">>>> >>  \* swap_dotless_b

\* clean_simple without the removal of the zero-width joiner
clean_simple_keeps_zwj(input) ==
    LET trimmed == trim(input)
    IN  apply_swaps(trimmed, Tail(simple_swaps))

\* clean_simple
clean_simple(input) ==
    LET trimmed == trim(input)
    IN  apply_swaps(trimmed, simple_swaps)

\* swaps_ordered with the bare-kasra rule ahead of the space-kasra rule
swaps_ordered_kasra_first ==
    << <<<<"U+0650">>, <<>>>>,            \* Kasra
       <<<<" ", "U+0650">>, <<>>>> >>     \* Space kasra

\* hw_full.rs: swaps_ordered
swaps_ordered ==
    << <<<<" ", "U+0650">>, <<>>>>,       \* Space kasra
       <<<<"U+0650">>, <<>>>> >>          \* Kasra

\* hw_full.rs: swaps_simple
swaps_simple ==
    << <<<<"U+FB7A">>, <<"U+0686">>>>,            \* Ch
       <<<<"\"">>, <<"U+02BB", "U+02BB">>>>,      \* Double ayn
       <<<<"U+00E2">>, <<"U+0101">>>>,            \* A hat
       <<<<"U+0680">>, <<"U+067E">>>>,            \* Quad p
       <<<<"U+1E61">>, <<"U+1E63">>>>,            \* Dot s
       <<<<"U+1E33">>, <<"k">>>>,                 \* Dot k
       <<<<"U+2039">>, <<"U+012B">>>>,            \* Left arrow
       <<<<"U+00E0">>, <<"a">>>> >>               \* A grave

\* swaps_complex without the E breve rule
swaps_complex_no_e_breve ==
    << <<<<"U+0627", "U+064E">>, <<"U+0622">>>>,  \* Alif fatha
       <<<<"U+06CC", "U+064E">>, <<"U+06CC">>>>,  \* Fix maris
       <<<<" ", "U+064C">>, <<"U+064B">>>>,       \* Fix muwajahatan
       <<<<" ", "U+064F">>, <<"U+064B">>>> >>     \* Fix yasiran

\* hw_full.rs: swaps_complex
swaps_complex ==
    << <<<<"U+0627", "U+064E">>, <<"U+0622">>>>,  \* Alif fatha
       <<<<"e", "U+0306">>, <<"U+0115">>>>,       \* E breve
       <<<<"U+06CC", "U+064E">>, <<"U+06CC">>>>,  \* Fix maris
       <<<<" ", "U+064C">>, <<"U+064B">>>>,       \* Fix muwajahatan
       <<<<" ", "U+064F">>, <<"U+064B">>>> >>     \* Fix yasiran

\* hw_full.rs: clean_hw_full
clean_hw_full(input) ==
    LET cleaned0 == clean_simple(input)
        cleaned1 == apply_swaps(cleaned0, swaps_ordered)
        cleaned2 == apply_swaps(cleaned1, swaps_simple)
        cleaned3 == apply_swaps(cleaned2, swaps_complex)
    IN  cleaned3

\* the unrolled chain with the bare-kasra rule ahead of the space-kasra rule
lib_clean_hw_full_kasra_first(input) ==
    LET precleaned == clean_simple(input)
        no_kasra0 == replace(precleaned, <<"U+0650">>, <<>>)
        no_kasra == replace(no_kasra0, <<" ", "U+0650">>, <<>>)
        swap_ch == replace(no_kasra, <<"U+FB7A">>, <<"U+0686">>)
        swap_double_ayn == replace(swap_ch, <<"\"">>, <<"U+02BB", "U+02BB">>)
        swap_a_hat == replace(swap_double_ayn, <<"U+00E2">>, <<"U+0101">>)
        swap_quad_p == replace(swap_a_hat, <<"U+0680">>, <<"U+067E">>)
        swap_dot_s == replace(swap_quad_p, <<"U+1E61">>, <<"U+1E63">>)
        swap_dot_k == replace(swap_dot_s, <<"U+1E33">>, <<"k">>)
        swap_left_arrow == replace(swap_dot_k, <<"U+2039">>, <<"U+012B">>)
        swap_a_grave == replace(swap_left_arrow, <<"U+00E0">>, <<"a">>)
        swap_alif_fatha ==
            replace(swap_a_grave, <<"U+0627", "U+064E">>, <<"U+0622">>)
        swap_e_breve == replace(swap_alif_fatha, <<"e", "U+0306">>, <<"U+0115">>)
        fix_maris == replace(swap_e_breve, <<"U+06CC", "U+064E">>, <<"U+06CC">>)
        fix_muwajahatan == replace(fix_maris, <<" ", "U+064C">>, <<"U+064B">>)
        fix_yasiran == replace(fix_muwajahatan, <<" ", "U+064F">>, <<"U+064B">>)
    IN  fix_yasiran

\* lib.rs: clean_hw_full, the unrolled chain of replacements
lib_clean_hw_full(input) ==
    LET precleaned == clean_simple(input)
        no_space_kasra == replace(precleaned, <<" ", "U+0650">>, <<>>)
        no_kasra == replace(no_space_kasra, <<"U+0650">>, <<>>)
        swap_ch == replace(no_kasra, <<"U+FB7A">>, <<"U+0686">>)
        swap_double_ayn == replace(swap_ch, <<"\"">>, <<"U+02BB", "U+02BB">>)
        swap_a_hat == replace(swap_double_ayn, <<"U+00E2">>, <<"U+0101">>)
        swap_quad_p == replace(swap_a_hat, <<"U+0680">>, <<"U+067E">>)
        swap_dot_s == replace(swap_quad_p, <<"U+1E61">>, <<"U+1E63">>)
        swap_dot_k == replace(swap_dot_s, <<"U+1E33">>, <<"k">>)
        swap_left_arrow == replace(swap_dot_k, <<"U+2039">>, <<"U+012B">>)
        swap_a_grave == replace(swap_left_arrow, <<"U+00E0">>, <<"a">>)
        swap_alif_fatha ==
            replace(swap_a_grave, <<"U+0627", "U+064E">>, <<"U+0622">>)
        swap_e_breve == replace(swap_alif_fatha, <<"e", "U+0306">>, <<"U+0115">>)
        fix_maris == replace(swap_e_breve, <<"U+06CC", "U+064E">>, <<"U+06CC">>)
        fix_muwajahatan == replace(fix_maris, <<" ", "U+064C">>, <<"U+064B">>)
        fix_yasiran == replace(fix_muwajahatan, <<" ", "U+064F">>, <<"U+064B">>)
    IN  fix_yasiran

\* the (pattern, replacement) pairs of the chain of lib.rs, in its order
unrolled_swaps ==
    << <<<<" ", "U+0650">>, <<>>>>,               \* no_space_kasra
       <<<<"U+0650">>, <<>>>>,                    \* no_kasra
       <<<<"U+FB7A">>, <<"U+0686">>>>,            \* swap_ch
       <<<<"\"">>, <<"U+02BB", "U+02BB">>>>,      \* swap_double_ayn
       <<<<"U+00E2">>, <<"U+0101">>>>,            \* swap_a_hat
       <<<<"U+0680">>, <<"U+067E">>>>,            \* swap_quad_p
       <<<<"U+1E61">>, <<"U+1E63">>>>,            \* swap_dot_s
       <<<<"U+1E33">>, <<"k">>>>,                 \* swap_dot_k
       <<<<"U+2039">>, <<"U+012B">>>>,            \* swap_left_arrow
       <<<<"U+00E0">>, <<"a">>>>,                 \* swap_a_grave
       <<<<"U+0627", "U+064E">>, <<"U+0622">>>>,  \* swap_alif_fatha
       <<<<"e", "U+0306">>, <<"U+0115">>>>,       \* swap_e_breve
       <<<<"U+06CC", "U+064E">>, <<"U+06CC">>>>,  \* fix_maris
       <<<<" ", "U+064C">>, <<"U+064B">>>>,       \* fix_muwajahatan
       <<<<" ", "U+064F">>, <<"U+064B">>>> >>     \* fix_yasiran

\* hw_per.rs: clean_hw_per
clean_hw_per(input) ==
    LET precleaned == clean_simple(input)
        no_space_kasra == replace(precleaned, <<" ", "U+0650">>, <<>>)
        no_kasra == replace(no_space_kasra, <<"U+0650">>, <<>>)
        swap_alif_fatha == replace(no_kasra, <<"U+0627", "U+064E">>, <<"U+0622">>)
        fix_kasratayn == replace(swap_alif_fatha, <<" ", "U+064D">>, <<"U+064D">>)
        fix_muwajahatan == replace(fix_kasratayn, <<" ", "U+064C">>, <<"U+064B">>)
        fix_maris == replace(fix_muwajahatan, <<"U+06CC", "U+064E">>, <<"U+06CC">>)
        fix_yasiran == replace(fix_maris, <<" ", "U+064F">>, <<"U+064B">>)
    IN  fix_yasiran

\* hw_lat.rs: swaps
lat_swaps ==
    << <<<<"\"">>, <<"U+2018", "U+2018">>>>,      \* Double ayn
       <<<<"U+00E0">>, <<"a">>>>,                 \* A grave
       <<<<"U+00E2">>, <<"U+0101">>>>,            \* A hat
       <<<<"U+1E33">>, <<"k">>>>,                 \* Dot k
       <<<<"U+1E61">>, <<"U+1E63">>>>,            \* Dot s
       <<<<"U+2039">>, <<"U+012B">>>> >>          \* Left arrow

\* hw_lat.rs: clean_hw_lat
clean_hw_lat(input) ==
    LET cleaned == clean_simple(input)
    IN  apply_swaps(cleaned, lat_swaps)

\* clean_defs with the bare-breve rule ahead of the E breve rule
clean_defs_breve_first(input) ==
    LET precleaned == clean_simple(input)
        swap_ae == replace(precleaned, <<"U+04D4">>, <<"U+00C6">>)
        swap_quad_p == replace(swap_ae, <<"U+0680">>, <<"U+067E">>)
        swap_u_hat == replace(swap_quad_p, <<"U+00FB">>, <<"U+016B">>)
        swap_madda == replace(swap_u_hat, <<"U+FE81">>, <<"U+0622">>)
        swap_dot == replace(swap_madda, <<"U+00B7">>, <<"U+02BB">>)
        swap_lira == replace(swap_dot, <<"U+20A4">>, <<"U+00A3">>)
        swap_z_dot == replace(swap_lira, <<"U+017C">>, <<"U+1E93">>)
        swap_a_acute == replace(swap_z_dot, <<"U+00C1">>, <<"A">>)
        swap_breve == replace(swap_a_acute, <<"U+0306">>, <<"U+02D8">>)
        swap_e_breve == replace(swap_breve, <<"e", "U+0306">>, <<"U+0115">>)
        fix_lone_madda ==
            replace(swap_e_breve, <<"/", "U+061F", "/">>,
                    <<"U+0640", "U+0640", "U+0653", "U+0640">>)
    IN  fix_lone_madda

\* defs.rs: clean_defs
clean_defs(input) ==
    LET precleaned == clean_simple(input)
        swap_ae == replace(precleaned, <<"U+04D4">>, <<"U+00C6">>)
        swap_quad_p == replace(swap_ae, <<"U+0680">>, <<"U+067E">>)
        swap_u_hat == replace(swap_quad_p, <<"U+00FB">>, <<"U+016B">>)
        swap_madda == replace(swap_u_hat, <<"U+FE81">>, <<"U+0622">>)
        swap_dot == replace(swap_madda, <<"U+00B7">>, <<"U+02BB">>)
        swap_lira == replace(swap_dot, <<"U+20A4">>, <<"U+00A3">>)
        swap_z_dot == replace(swap_lira, <<"U+017C">>, <<"U+1E93">>)
        swap_a_acute == replace(swap_z_dot, <<"U+00C1">>, <<"A">>)
        swap_e_breve == replace(swap_a_acute, <<"e", "U+0306">>, <<"U+0115">>)
        swap_breve == replace(swap_e_breve, <<"U+0306">>, <<"U+02D8">>)
        fix_lone_madda ==
            replace(swap_breve, <<"/", "U+061F", "/">>,
                    <<"U+0640", "U+0640", "U+0653", "U+0640">>)
    IN  fix_lone_madda

\* the canonicalization profile of a field kind
Profiles == {"clean_hw_full", "clean_hw_per", "clean_hw_lat", "clean_defs"}

canonicalize(p, x) ==
    CASE p = "clean_hw_full" -> clean_hw_full(x)
      [] p = "clean_hw_per" -> clean_hw_per(x)
      [] p = "clean_hw_lat" -> clean_hw_lat(x)
      [] p = "clean_defs" -> clean_defs(x)
      [] p = "clean_simple" -> clean_simple(x)
      [] p = "lib_clean_hw_full" -> lib_clean_hw_full(x)

-----------------------------------------------------------------------------
(* SpecClean: the canonicalizers applied to enumerated texts.  Each        *)
(* behaviour applies one canonicalizer to one text.                        *)

\* longest enumerated text
MaxTextLen == 3

CleanAlphabet ==
    {" ", "a", "e", "\"", "U+200D", "U+0650", "U+0627", "U+064E", "U+06CC",
     "U+064D", "U+0306"}

\* every pattern and every replacement of the rule lists
RuleTexts ==
    LET all == simple_swaps \o swaps_ordered \o swaps_simple
               \o swaps_complex \o lat_swaps
    IN  UNION {{all[i][1], all[i][2]} : i \in 1..Len(all)}
        \cup {<<"U+04D4">>, <<"U+00FB">>, <<"U+00B7">>, <<"U+20A4">>,
              <<"U+017C">>, <<"U+00C1">>, <<"/", "U+061F", "/">>,
              <<" ", "U+064D">>, <<"N", "/", "A">>}

Texts == SeqsUpTo(CleanAlphabet, MaxTextLen) \cup RuleTexts

CallClean ==
    /\ op = "none"
    /\ \E p \in Profiles \cup {"clean_simple", "lib_clean_hw_full"}, x \in Texts :
          /\ op' = p
          /\ arg' = x
          /\ res' = Ok(canonicalize(p, x))
    /\ UNCHANGED <<mainVars, rendered, entryVars, checkVars>>

\* the rules a single replace call is made with
Rules ==
    LET all == simple_swaps \o swaps_ordered \o swaps_simple
               \o swaps_complex \o lat_swaps
    IN  {all[i] : i \in 1..Len(all)}
        \cup {<<<<" ", "U+064D">>, <<"U+064D">>>>,
              <<<<"U+0306">>, <<"U+02D8">>>>}

ReplaceAlphabet == {" ", "U+064D", "U+0650", "e", "U+0306"}

ReplaceTexts == SeqsUpTo(ReplaceAlphabet, MaxTextLen)

\* one rule applied with a replacement that scans its own output again
CallReplaceRescanning ==
    /\ op = "none"
    /\ \E rule \in Rules, x \in ReplaceTexts :
          /\ op' = "replace"
          /\ arg' = [s |-> x, from |-> rule[1], to |-> rule[2]]
          /\ res' = Ok(replace_rescanning(x, rule[1], rule[2]))
    /\ UNCHANGED <<mainVars, rendered, entryVars, checkVars>>

\* one rule applied: cleaned.replace(from, to)
CallReplace ==
    /\ op = "none"
    /\ \E rule \in Rules, x \in ReplaceTexts :
          /\ op' = "replace"
          /\ arg' = [s |-> x, from |-> rule[1], to |-> rule[2]]
          /\ res' = Ok(replace(x, rule[1], rule[2]))
    /\ UNCHANGED <<mainVars, rendered, entryVars, checkVars>>

NextClean == CallClean \/ CallReplace

SpecClean == InitIdle /\ [][NextClean]_vars

\* C5: applying a profile to its own output changes nothing.
C5_Idempotent ==
    op \in Profiles => canonicalize(op, res.val) = res.val

\* C15: under the two profiles that hold the E breve rule, the text
\* U+0065 U+0306 becomes the one-codepoint text U+0115.
C15_EBreveComposed ==
    (op \in {"clean_hw_full", "clean_defs"} /\ arg = <<"e", "U+0306">>) =>
        res = Ok(<<"U+0115">>)

C15_Witness ==
    /\ op = "clean_hw_full"
    /\ arg = <<"e", "U+0306">>
    /\ res = Ok(<<"U+0115">>)

\* the matches one pass over s replaces: an occurrence of the pattern is
\* replaced unless it starts inside a replaced occurrence to its left
Replaced(s, from) ==
    CHOOSE C \in SUBSET Occurrences(s, from) :
        \A i \in Occurrences(s, from) :
            i \in C <=> ~\E j \in C : j < i /\ i < j + Len(from)

\* s with each replaced match turned into `to`, the rest left as it is
OnePass(s, from, to) ==
    LET C == Replaced(s, from)
    IN  Concat([i \in 1..Len(s) |->
                  IF i \in C THEN to
                  ELSE IF \E j \in C : j < i /\ i < j + Len(from) THEN <<>>
                  ELSE <<s[i]>>])

\* C16: one rule is one left-to-right pass of non-overlapping replacements
\* over the text, and what a replacement wrote is not scanned again: the
\* rule (U+0020 U+064D -> U+064D) turns U+0020 U+0020 U+064D into
\* U+0020 U+064D.
C16_SinglePass ==
    op = "replace" =>
        /\ res = Ok(OnePass(arg.s, arg.from, arg.to))
        /\ (/\ arg.s = <<" ", " ", "U+064D">>
            /\ arg.from = <<" ", "U+064D">>
            /\ arg.to = <<"U+064D">>) => res = Ok(<<" ", "U+064D">>)

C16_Witness ==
    /\ op = "replace"
    /\ arg = [s |-> <<" ", " ", "U+064D">>, from |-> <<" ", "U+064D">>,
              to |-> <<"U+064D">>]
    /\ res = Ok(<<" ", "U+064D">>)

\* the positions of s at which U+0306 directly follows U+0065
EBreves(s) == Occurrences(s, <<"e", "U+0306">>)

\* the output `out` has no U+0306, one more U+0115 for every U+0306 of s
\* directly after U+0065 and one more U+02D8 for every other U+0306 of s
BrevesRewritten(s, out) ==
    /\ Count(out, "U+0306") = 0
    /\ Count(out, "U+0115") = Count(s, "U+0115") + Cardinality(EBreves(s))
    /\ Count(out, "U+02D8") =
          Count(s, "U+02D8") + Count(s, "U+0306") - Cardinality(EBreves(s))

\* C17 as claimed: the output of clean_defs has no U+0306; every U+0306
\* that directly followed U+0065 in the input has become part of a U+0115
\* and every other U+0306 of the input has become U+02D8.
C17_BrevesOfInput ==
    op = "clean_defs" => BrevesRewritten(arg, res.val)

\* C17 amended: the E breve rule runs before the bare-breve rule and both
\* run after the baseline; the output of clean_defs has no U+0306, every
\* U+0306 that directly follows U+0065 once the baseline has removed
\* U+200D and U+200F has become part of a U+0115, and every other U+0306
\* has become U+02D8.
C17_BrevesAfterBaseline ==
    op = "clean_defs" => BrevesRewritten(clean_simple(arg), res.val)

C17_Witness ==
    /\ op = "clean_defs"
    /\ arg = <<"e", "U+200D", "U+0306">>
    /\ res = Ok(<<"U+0115">>)

\* the codepoints the baseline removes or rewrites
BaselineSources == {simple_swaps[i][1][1] : i \in 1..Len(simple_swaps)}

\* C18: the output of every profile, and of the baseline itself, holds
\* neither U+200D nor U+200F nor any codepoint the baseline rewrites.
C18_NoBaselineSourceLeft ==
    /\ BaselineSources =
          {"U+200D", "U+200F", "U+FBA9", "U+FB7D", "U+FB58", "U+FB59",
           "U+FB8A", "U+FB94", "U+FB8B", "U+FEEB", "U+FE81", "U+FE8A",
           "U+06B1", "U+06BE", "U+066E"}
    /\ op \in Profiles \cup {"clean_simple"} =>
          \A i \in 1..Len(res.val) : res.val[i] \notin BaselineSources

C18_Witness ==
    /\ op \in Profiles
    /\ \E i \in 1..Len(arg) : arg[i] = "U+200D"
    /\ \E i \in 1..Len(arg) : arg[i] = "U+0650"
    /\ res.tag = "Ok"

\* C26: the table-driven clean_hw_full of hw_full.rs and the unrolled
\* clean_hw_full of lib.rs hold the same rules in the same order and give
\* the same text for every input.
C26_TableEqualsUnrolled ==
    /\ unrolled_swaps = swaps_ordered \o swaps_simple \o swaps_complex
    /\ op \in {"clean_hw_full", "lib_clean_hw_full"} =>
          /\ clean_hw_full(arg) = lib_clean_hw_full(arg)
          /\ res = Ok(clean_hw_full(arg))
          /\ res = Ok(apply_swaps(clean_simple(arg), unrolled_swaps))

C26_Witness ==
    /\ op = "lib_clean_hw_full"
    /\ arg = <<"a", " ", "U+0650">>
    /\ res = Ok(<<"a">>)

\* t without its kasras and without the space directly before a kasra
DropKasra(t) ==
    Concat([i \in 1..Len(t) |->
              IF \/ t[i] = "U+0650"
                 \/ (t[i] = " " /\ i < Len(t) /\ t[i + 1] = "U+0650")
              THEN <<>>
              ELSE <<t[i]>>])

\* C27: in clean_hw_full and clean_hw_per the space-kasra rule runs before
\* the bare-kasra rule and both before the alif-fatha swap: the output has
\* no U+0650; the space directly before a kasra goes with it; an alif and
\* a fatha with only a kasra between them become U+0622.
C27_KasraBeforeAlifFatha ==
    op \in {"clean_hw_full", "clean_hw_per"} =>
        LET cleaned == clean_simple(arg)
        IN  /\ Count(res.val, "U+0650") = 0
            /\ AllIn(arg, {"a", "e", " ", "U+0650"}) =>
                  res.val = DropKasra(cleaned)
            /\ Count(res.val, "U+0622") =
                  Count(cleaned, "U+0622")
                  + Cardinality(Occurrences(DropKasra(cleaned),
                                            <<"U+0627", "U+064E">>))
            /\ arg = <<"U+0627", "U+0650", "U+064E">> =>
                  res.val = <<"U+0622">>

C27_Witness ==
    /\ op = "clean_hw_per"
    /\ arg = <<"U+0627", "U+0650", "U+064E">>
    /\ res = Ok(<<"U+0622">>)

-----------------------------------------------------------------------------
(* The renderer wrapper pandoc() (lib.rs) and the extractors built on it.  *)
(* The pandoc process is outside the program: what it does on one call is  *)
(* a renderer outcome `o`, chosen by the environment.  A function that may *)
(* call pandoc() yields [out, calls]: its outcome and the pandoc() calls   *)
(* it made, each with the text handed over and the renderer outcome.       *)

Run(out, calls) == [out |-> out, calls |-> calls]

\* a renderer outcome: the temporary file could not be written, or the
\* process could not be started, or it exited (successfully or not) with
\* bytes on stdout that are valid UTF-8 (the text `stdout`) or not
RenderOutcome(kind, success, utf8, stdout) ==
    [kind |-> kind, success |-> success, utf8 |-> utf8, stdout |-> stdout]

\* pandoc without the trim_start after the commas have been removed
pandoc_no_trim_start(input, o) ==
    Run(IF o.kind = "tempfile_error" THEN Err("io")
        ELSE IF o.kind = "spawn_error" THEN Err("io")
        ELSE IF ~o.utf8 THEN Err("Utf8Error")
        ELSE Ok(trim_start_matches(trim(o.stdout), ",")),
        <<[input |-> input, outcome |-> o]>>)

\* pandoc; the exit status of the process is not looked at
pandoc(input, o) ==
    Run(IF o.kind = "tempfile_error" THEN Err("io")
        ELSE IF o.kind = "spawn_error" THEN Err("io")
        ELSE IF ~o.utf8 THEN Err("Utf8Error")
        ELSE LET output == o.stdout
                 cleaned == trim_start(trim_start_matches(trim(output), ","))
             IN  Ok(cleaned),
        <<[input |-> input, outcome |-> o]>>)

\* select_full_headword with a missing headword rendered as empty
select_full_headword_lenient(parsed, o) ==
    LET r == pandoc(IF parsed.hw.some THEN parsed.hw.val ELSE <<>>, o)
    IN  IF r.out.tag = "Ok" THEN Run(Ok(clean_hw_full(r.out.val)), r.calls)
        ELSE r

\* hw_full.rs: select_full_headword; parsed.hw is the html of the first
\* <hw> element, None when the selector finds none
select_full_headword(parsed, o) ==
    IF ~parsed.hw.some THEN Run(Panic("unwrap on None"), <<>>)
    ELSE LET hw_full_text == pandoc(parsed.hw.val, o)
         IN  IF hw_full_text.out.tag = "Ok"
             THEN Run(Ok(clean_hw_full(hw_full_text.out.val)),
                      hw_full_text.calls)
             ELSE hw_full_text

\* hw_per.rs: get_hw_per; parsed.pa is the text of the first "hw pa"
\* element
get_hw_per(parsed) ==
    IF ~parsed.pa.some THEN Panic("unwrap on None")
    ELSE LET persian_text == parsed.pa.val
         IN  Ok(clean_hw_per(persian_text))

\* get_hw_lat that renders an empty snippet when the element is missing
get_hw_lat_always_renders(parsed, o) ==
    LET r == pandoc(IF parsed.i.some THEN parsed.i.val ELSE <<>>, o)
    IN  IF r.out.tag # "Ok" THEN r
        ELSE Run(Ok(clean_hw_lat(IF parsed.i.some THEN r.out.val
                                 ELSE <<"N", "/", "A">>)), r.calls)

\* hw_lat.rs: get_hw_lat; parsed.i is the html of the first "hw i" element
get_hw_lat(parsed, o) ==
    LET latin_text == IF parsed.i.some THEN pandoc(parsed.i.val, o)
                      ELSE Run(Ok(<<"N", "/", "A">>), <<>>)
    IN  IF latin_text.out.tag = "Ok"
        THEN Run(Ok(clean_hw_lat(latin_text.out.val)), latin_text.calls)
        ELSE latin_text

Min(S) == CHOOSE x \in S : \A y \in S : x <= y

Max(S) == CHOOSE x \in S : \A y \in S : y <= x

RECURSIVE regex_strip_dotall(_, _, _)
\* the replacement with a dot that also matches the line feed
regex_strip_dotall(s, open, close) ==
    LET n == Len(s)
        isAt(i, pat) ==
            i + Len(pat) - 1 <= n /\ SubSeq(s, i, i + Len(pat) - 1) = pat
        closes(i) == {j \in (i + Len(open))..n : isAt(j, close)}
        starts == {i \in 1..n : isAt(i, open) /\ closes(i) # {}}
    IN  IF starts = {} THEN s
        ELSE LET i == Min(starts)
                 j == Max(closes(i))
             IN  SubSeq(s, 1, i - 1)
                 \o regex_strip_dotall(SubSeq(s, j + Len(close), n), open, close)

RECURSIVE regex_strip(_, _, _)
\* Regex::new(open .* close).replace_all(s, ""): the leftmost match is
\* taken, extended to the last `close` the dot can reach (the dot matches
\* every character but the line feed), removed, and the search goes on
\* after it
regex_strip(s, open, close) ==
    LET n == Len(s)
        isAt(i, pat) ==
            i + Len(pat) - 1 <= n /\ SubSeq(s, i, i + Len(pat) - 1) = pat
        closes(i) ==
            {j \in (i + Len(open))..n :
                /\ isAt(j, close)
                /\ \A k \in (i + Len(open))..(j - 1) : s[k] # "\n"}
        starts == {i \in 1..n : isAt(i, open) /\ closes(i) # {}}
    IN  IF starts = {} THEN s
        ELSE LET i == Min(starts)
                 j == Max(closes(i))
             IN  SubSeq(s, 1, i - 1)
                 \o regex_strip(SubSeq(s, j + Len(close), n), open, close)

OpenTag(kind) == <<"<">> \o kind \o <<">">>

CloseTag(kind) == <<"<", "/">> \o kind \o <<">">>

Kind_c == <<"c">>

Kind_hw == <<"h", "w">>

Kind_lang == <<"l", "a", "n", "g">>

\* except_headword that strips in the order <lang>, <hw>, <c>
except_headword_lang_first(input, o) ==
    LET without_lang ==
            regex_strip(input, OpenTag(Kind_lang), CloseTag(Kind_lang))
        without_hw ==
            regex_strip(without_lang, OpenTag(Kind_hw), CloseTag(Kind_hw))
        without_c == regex_strip(without_hw, OpenTag(Kind_c), CloseTag(Kind_c))
        processed == pandoc(without_c, o)
    IN  IF processed.out.tag = "Ok"
        THEN Run(Ok(clean_defs(processed.out.val)), processed.calls)
        ELSE processed

\* defs.rs: except_headword
except_headword(input, o) ==
    LET without_c == regex_strip(input, OpenTag(Kind_c), CloseTag(Kind_c))
        without_hw ==
            regex_strip(without_c, OpenTag(Kind_hw), CloseTag(Kind_hw))
        without_lang ==
            regex_strip(without_hw, OpenTag(Kind_lang), CloseTag(Kind_lang))
        processed == pandoc(without_lang, o)
    IN  IF processed.out.tag = "Ok"
        THEN Run(Ok(clean_defs(processed.out.val)), processed.calls)
        ELSE processed

\* headword_parts, which main imports; it yields the primary-script and
\* the Latin headword, the first required and the second optional
headword_parts(parsed, o) ==
    LET per == get_hw_per(parsed)
        lat == get_hw_lat(parsed, o)
    IN  IF per.tag # "Ok" THEN Run(per, <<>>)
        ELSE IF lat.out.tag # "Ok" THEN lat
        ELSE Run(Ok(<<per.val, lat.out.val>>), lat.calls)

-----------------------------------------------------------------------------
(* SpecEntry: the extractors applied to a parsed fragment, either one      *)
(* function alone (as the tests apply them to a stored row) or in the      *)
(* order of the per-entry body of main (main.rs:89-106): get_lang,         *)
(* select_full_headword, headword_parts, except_headword, Entry { .. },    *)
(* insert_row.  A `?` on Err ends main with that error; a panic ends it    *)
(* at once.                                                                *)

MIN_PAGE == 1

HwHtml == OpenTag(Kind_hw) \o <<"x">> \o CloseTag(Kind_hw)

LangSamples == {None, Some(<<"A", ".">>), Some(<<"z">>)}

\* what the selectors find in a fragment: "hw pa" and "hw i" only find
\* descendants of a <hw> element
ParsedSamples ==
    {f \in [lang : LangSamples,
            hw : {None, Some(HwHtml)},
            pa : {None, Some(<<"U+0627", "U+064E">>)},
            i : {None, Some(<<"<", "i", ">", "a", "<", "/", "i", ">">>)}] :
        (f.pa.some \/ f.i.some) => f.hw.some}

HtmlSamples == {HwHtml \o <<" ", "d">>, <<"d">>}

Fragments == [page : {MIN_PAGE}, html : HtmlSamples, parsed : ParsedSamples]

EntryOutcomes ==
    {RenderOutcome("tempfile_error", FALSE, FALSE, <<>>),
     RenderOutcome("spawn_error", FALSE, FALSE, <<>>),
     RenderOutcome("exited", FALSE, TRUE, <<>>),
     RenderOutcome("exited", FALSE, TRUE, <<"a">>),
     RenderOutcome("exited", TRUE, FALSE, <<>>),
     RenderOutcome("exited", TRUE, TRUE, <<"a">>),
     RenderOutcome("exited", TRUE, TRUE, <<",", " ", "a", "\n">>)}

\* where main is after a call with outcome r, `next` being the statement
\* that follows on Ok
After(r, next) ==
    CASE r.tag = "Ok" -> next
      [] r.tag = "Err" -> "returned_err"
      [] r.tag = "Panic" -> "panicked"

CallPandoc ==
    /\ op = "none" /\ pc = "idle"
    /\ \E input \in HtmlSamples, o \in EntryOutcomes :
          LET r == pandoc(input, o)
          IN  /\ op' = "pandoc"
              /\ arg' = input
              /\ res' = r.out
              /\ rendered' = rendered \o r.calls
    /\ UNCHANGED <<mainVars, entryVars, checkVars>>

CallSelectFullHeadword ==
    /\ op = "none" /\ pc = "idle"
    /\ \E f \in Fragments, o \in EntryOutcomes :
          LET r == select_full_headword(f.parsed, o)
          IN  /\ op' = "select_full_headword"
              /\ arg' = f
              /\ res' = r.out
              /\ rendered' = rendered \o r.calls
    /\ UNCHANGED <<mainVars, entryVars, checkVars>>

CallGetHwPer ==
    /\ op = "none" /\ pc = "idle"
    /\ \E f \in Fragments :
          /\ op' = "get_hw_per"
          /\ arg' = f
          /\ res' = get_hw_per(f.parsed)
    /\ UNCHANGED <<mainVars, rendered, entryVars, checkVars>>

CallGetHwLat ==
    /\ op = "none" /\ pc = "idle"
    /\ \E f \in Fragments, o \in EntryOutcomes :
          LET r == get_hw_lat(f.parsed, o)
          IN  /\ op' = "get_hw_lat"
              /\ arg' = f
              /\ res' = r.out
              /\ rendered' = rendered \o r.calls
    /\ UNCHANGED <<mainVars, entryVars, checkVars>>

\* main.rs:89: the fragment is parsed
BeginEntry ==
    /\ op = "none" /\ pc = "idle"
    /\ \E f \in Fragments : arg' = f
    /\ op' = "parse_fragment"
    /\ pc' = "get_lang"
    /\ UNCHANGED <<mainVars, res, rendered, entry, db, checkVars>>

\* main.rs:91
StepGetLang ==
    /\ pc = "get_lang"
    /\ LET r == get_lang(arg.parsed.lang)
       IN  /\ op' = "get_lang"
           /\ res' = r
           /\ pc' = After(r, "select_full_headword")
           /\ entry' = IF r.tag = "Ok"
                       THEN [entry EXCEPT !.lang = Some(r.val)] ELSE entry
    /\ UNCHANGED <<mainVars, arg, rendered, db, checkVars>>

\* main.rs:92
StepSelectFullHeadword ==
    /\ pc = "select_full_headword"
    /\ \E o \in EntryOutcomes :
          LET r == select_full_headword(arg.parsed, o)
          IN  /\ op' = "select_full_headword"
              /\ res' = r.out
              /\ rendered' = rendered \o r.calls
              /\ pc' = After(r.out, "headword_parts")
              /\ entry' = IF r.out.tag = "Ok"
                          THEN [entry EXCEPT !.headword_full = Some(r.out.val)]
                          ELSE entry
    /\ UNCHANGED <<mainVars, arg, db, checkVars>>

\* main.rs:93
StepHeadwordParts ==
    /\ pc = "headword_parts"
    /\ \E o \in EntryOutcomes :
          LET r == headword_parts(arg.parsed, o)
          IN  /\ op' = "headword_parts"
              /\ res' = r.out
              /\ rendered' = rendered \o r.calls
              /\ pc' = After(r.out, "except_headword")
              /\ entry' = IF r.out.tag = "Ok"
                          THEN [entry EXCEPT
                                  !.headword_persian = Some(r.out.val[1]),
                                  !.headword_latin = Some(r.out.val[2])]
                          ELSE entry
    /\ UNCHANGED <<mainVars, arg, db, checkVars>>

\* main.rs:94
StepExceptHeadword ==
    /\ pc = "except_headword"
    /\ \E o \in EntryOutcomes :
          LET r == except_headword(arg.html, o)
          IN  /\ op' = "except_headword"
              /\ res' = r.out
              /\ rendered' = rendered \o r.calls
              /\ pc' = After(r.out, "build_entry")
              /\ entry' = IF r.out.tag = "Ok"
                          THEN [entry EXCEPT !.definitions = Some(r.out.val)]
                          ELSE entry
    /\ UNCHANGED <<mainVars, arg, db, checkVars>>

\* main.rs:96-104
StepBuildEntry ==
    /\ pc = "build_entry"
    /\ entry' = [entry EXCEPT !.built = TRUE]
    /\ pc' = "insert_row"
    /\ UNCHANGED <<mainVars, callVars, db, checkVars>>

\* lib.rs: insert_row, called at main.rs:106; the INSERT may fail
StepInsertRow ==
    /\ pc = "insert_row"
    /\ op' = "insert_row"
    /\ \E ok \in BOOLEAN :
          IF ok
          THEN /\ db' = Append(db, [page |-> arg.page,
                                    raw_html |-> arg.html,
                                    lang |-> as_str(entry.lang.val),
                                    headword_full |-> entry.headword_full.val,
                                    headword_persian |-> entry.headword_persian.val,
                                    headword_latin |-> entry.headword_latin.val,
                                    definitions |-> entry.definitions.val])
               /\ res' = Ok(<<>>)
               /\ pc' = "inserted"
          ELSE /\ db' = db
               /\ res' = Err("sqlite")
               /\ pc' = "returned_err"
    /\ UNCHANGED <<mainVars, arg, rendered, entry, checkVars>>

NextEntry ==
    \/ CallPandoc
    \/ CallSelectFullHeadword
    \/ CallGetHwPer
    \/ CallGetHwLat
    \/ BeginEntry
    \/ StepGetLang
    \/ StepSelectFullHeadword
    \/ StepHeadwordParts
    \/ StepExceptHeadword
    \/ StepBuildEntry
    \/ StepInsertRow

SpecEntry == InitIdle /\ [][NextEntry]_vars

\* the renderer failed on the last pandoc() call
RenderFailed ==
    /\ rendered # <<>>
    /\ LET o == rendered[Len(rendered)].outcome
       IN  o.kind # "exited" \/ ~o.success \/ ~o.utf8

\* C6: when the renderer fails (not started, unsuccessful exit, output not
\* UTF-8), pandoc() and the extractors that call it return an error, never
\* an Ok text.
C6_RenderFailureIsErr ==
    (/\ op \in {"pandoc", "select_full_headword", "get_hw_lat",
                "except_headword"}
     /\ res.tag # "Panic"
     /\ RenderFailed) =>
        res.tag = "Err"

\* C9: without a headword element select_full_headword panics, without a
\* primary-script element get_hw_per panics; a panic ends the processing
\* of the entry, and no Entry is built or inserted after it.
C9_MissingElementIsFatal ==
    /\ (op = "select_full_headword" /\ ~arg.parsed.hw.some) =>
          res.tag = "Panic"
    /\ (op = "get_hw_per" /\ ~arg.parsed.pa.some) => res.tag = "Panic"
    /\ (pc # "idle" /\ res.tag = "Panic") => pc = "panicked"
    /\ pc = "panicked" => (~entry.built /\ db = <<>> /\ ~ENABLED NextEntry)
    /\ entry.built => arg.parsed.hw.some

C9_Witness ==
    /\ pc = "panicked"
    /\ op = "select_full_headword"
    /\ ~arg.parsed.hw.some
    /\ entry.lang.some

\* C10: without a Latin-transliteration element get_hw_lat returns Ok with
\* the text "N/A", makes no pandoc() call and returns no error.
C10_MissingLatinIsNA ==
    (op = "get_hw_lat" /\ ~arg.parsed.i.some) =>
        (res = Ok(<<"N", "/", "A">>) /\ rendered = <<>>)

C10_Witness ==
    /\ op = "get_hw_lat"
    /\ ~arg.parsed.i.some
    /\ arg.parsed.hw.some
    /\ res.tag = "Ok"

-----------------------------------------------------------------------------
(* SpecStrip: except_headword applied to fragments put together from tags, *)
(* text and line feeds.  Each behaviour makes one call.                    *)

\* most pieces in an enumerated fragment
MaxPieces == 4

Pieces ==
    {OpenTag(Kind_c), CloseTag(Kind_c), OpenTag(Kind_hw), CloseTag(Kind_hw),
     OpenTag(Kind_lang), CloseTag(Kind_lang), <<"\n">>, <<"x">>}

\* a subtree of one kind put inside the opening tag of another kind
SplitTagSamples ==
    {SubSeq(OpenTag(outer), 1, i) \o OpenTag(inner) \o CloseTag(inner)
     \o SubSeq(OpenTag(outer), i + 1, Len(OpenTag(outer)))
     \o <<"x">> \o CloseTag(outer) :
        outer \in {Kind_c, Kind_hw, Kind_lang},
        inner \in {Kind_c, Kind_hw, Kind_lang},
        i \in 1..2}

Htmls == {Concat(ps) : ps \in SeqsUpTo(Pieces, MaxPieces)} \cup SplitTagSamples

StripOutcomes ==
    {RenderOutcome("spawn_error", FALSE, FALSE, <<>>),
     RenderOutcome("exited", TRUE, TRUE, <<"x", "\n">>)}

CallExceptHeadword ==
    /\ op = "none" /\ pc = "idle"
    /\ \E input \in Htmls, o \in StripOutcomes :
          LET r == except_headword(input, o)
          IN  /\ op' = "except_headword"
              /\ arg' = input
              /\ res' = r.out
              /\ rendered' = rendered \o r.calls
    /\ UNCHANGED <<mainVars, entryVars, checkVars>>

NextStrip == CallExceptHeadword

SpecStrip == InitIdle /\ [][NextStrip]_vars

\* s without what lies from its first opening tag of the kind through its
\* last closing tag of the kind, when that closing tag comes after
FirstToLast(s, kind) ==
    LET opens == Occurrences(s, OpenTag(kind))
        closes == Occurrences(s, CloseTag(kind))
    IN  IF opens # {} /\ closes # {} /\ Max(closes) > Min(opens)
        THEN SubSeq(s, 1, Min(opens) - 1)
             \o SubSeq(s, Max(closes) + Len(CloseTag(kind)), Len(s))
        ELSE s

RECURSIVE FirstToLastPerLine(_, _)
\* FirstToLast applied to each line of s by itself
FirstToLastPerLine(s, kind) ==
    LET feeds == {i \in 1..Len(s) : s[i] = "\n"}
    IN  IF feeds = {} THEN FirstToLast(s, kind)
        ELSE FirstToLast(SubSeq(s, 1, Min(feeds) - 1), kind)
             \o <<"\n">>
             \o FirstToLastPerLine(SubSeq(s, Min(feeds) + 1, Len(s)), kind)

\* the text except_headword handed to the renderer
Handed == rendered[1].input

\* C8 as claimed: each of the three steps removes everything from the first
\* opening tag of its kind through the last closing tag of its kind, line
\* feeds in between or not.
C8_FirstToLastRemoved ==
    op = "except_headword" =>
        Handed = FirstToLast(FirstToLast(FirstToLast(arg, Kind_c), Kind_hw),
                             Kind_lang)

\* C8, what the code does instead: each of the three steps works line by
\* line: on every line
\* of its input it removes everything from the first opening tag of its
\* kind on that line through the last closing tag of its kind on that same
\* line; a subtree whose opening and closing tags are on different lines
\* is left in place.
C8_FirstToLastRemovedPerLine ==
    op = "except_headword" =>
        Handed = FirstToLastPerLine(
                     FirstToLastPerLine(FirstToLastPerLine(arg, Kind_c),
                                        Kind_hw),
                     Kind_lang)

C8_Witness ==
    /\ op = "except_headword"
    /\ arg = OpenTag(Kind_c) \o <<"x", "\n">> \o CloseTag(Kind_c)
    /\ Handed = arg

\* s stripped of the three kinds one after the other, each step taking the
\* output of the step before it
StrippedInOrder(s, first, second, third) ==
    LET strip(t, kind) == regex_strip(t, OpenTag(kind), CloseTag(kind))
    IN  strip(strip(strip(s, first), second), third)

\* the orders in which three steps can follow one another
StripOrders ==
    {<<Kind_c, Kind_hw, Kind_lang>>, <<Kind_c, Kind_lang, Kind_hw>>,
     <<Kind_hw, Kind_c, Kind_lang>>, <<Kind_hw, Kind_lang, Kind_c>>,
     <<Kind_lang, Kind_c, Kind_hw>>, <<Kind_lang, Kind_hw, Kind_c>>}

\* C19: the text handed to the renderer is the input stripped of <c>, then
\* of <hw>, then of <lang>, each step on the output of the previous one;
\* where the kinds do not overlap every order gives this text, and where
\* they overlap or nest another order can give another one.
C19_StripOrder ==
    op = "except_headword" =>
        /\ Handed = StrippedInOrder(arg, Kind_c, Kind_hw, Kind_lang)
        /\ (\A kind \in {Kind_c, Kind_hw, Kind_lang} :
               /\ Occurrences(arg, OpenTag(kind)) = {}
               /\ Occurrences(arg, CloseTag(kind)) = {}) => Handed = arg

\* an input on which the order of the steps shows
C19_Witness ==
    /\ op = "except_headword"
    /\ arg = OpenTag(Kind_c) \o OpenTag(Kind_hw) \o CloseTag(Kind_c)
             \o CloseTag(Kind_hw)
    /\ Handed = CloseTag(Kind_hw)
    /\ \E o \in StripOrders : StrippedInOrder(arg, o[1], o[2], o[3]) # Handed

\* some part of s matches the pattern of the kind: an opening tag, then any
\* characters but line feeds, then a closing tag
HasMatch(s, kind) ==
    \E i \in Occurrences(s, OpenTag(kind)), j \in Occurrences(s, CloseTag(kind)) :
        /\ i + Len(OpenTag(kind)) <= j
        /\ \A k \in (i + Len(OpenTag(kind)))..(j - 1) : s[k] # "\n"

\* C24: the text handed to the renderer has no part that matches
\* <c>.*</c>, <hw>.*</hw> or <lang>.*</lang>.
C24_NoSubtreeLeft ==
    op = "except_headword" =>
        \A kind \in {Kind_c, Kind_hw, Kind_lang} : ~HasMatch(Handed, kind)

-----------------------------------------------------------------------------
(* SpecCheck: the character tests (tests::chars of hw_per.rs and           *)
(* tests::hw_full_chars of lib.rs) run over a batch of stored rows.  The   *)
(* test walks the rows in order and each row's characters in order; its    *)
(* assert! panics on the first character outside the allow-list, with the  *)
(* row id and the codepoint in the message.                                *)

\* most rows in a batch
MaxRows == 2

\* longest stored field value
MaxRowLen == 2

ARABIC_ALLOWED ==
    {"U+0621", "U+0622", "U+0623", "U+0624", "U+0625", "U+0626", "U+0627",
     "U+0628", "U+0629", "U+062A", "U+062B", "U+062C", "U+062D", "U+062E",
     "U+062F", "U+0630", "U+0631", "U+0632", "U+0633", "U+0634", "U+0635",
     "U+0636", "U+0637", "U+0638", "U+0639", "U+063A", "U+0641", "U+0642",
     "U+0643", "U+0644", "U+0645", "U+0646", "U+0647", "U+0648", "U+0649",
     "U+064A", "U+064B", "U+064D", "U+0651", "U+0670", "U+067E", "U+0686",
     "U+0698", "U+06A9", "U+06AF", "U+06C0", "U+06CC"}

OTHER_ALLOWED ==
    {" ", "&", "'", "(", ")", "*", "+", ",", "-", ".", "0", "1", "2", "3",
     "4", "5", "6", "7", "8", "9", ";", "=", "?", "A", "P", "Q", "S", "Z",
     "a", "b", "c", "d", "e", "f", "g", "h", "i", "j", "k", "l", "m", "n",
     "o", "p", "q", "r", "s", "t", "u", "v", "w", "y", "z", "U+00E1",
     "U+00EE", "U+00FC", "U+0101", "U+0113", "U+0115", "U+012B", "U+014D",
     "U+016B", "U+02BB", "U+02BC", "U+02CC", "U+0320", "U+0324", "U+1E25",
     "U+1E35", "U+1E43", "U+1E47", "U+1E5B", "U+1E63", "U+1E6D", "U+1E89",
     "U+1E93", "U+1E95", "U+1E96", "U+2014"}

\* the condition of the assert! of the test of a field
Allowed(field, c) ==
    CASE field = "headword_persian" ->
            c \in ARABIC_ALLOWED \/ c = "U+0674" \/ c = " "
      [] field = "headword_full" ->
            c \in ARABIC_ALLOWED \/ c \in OTHER_ALLOWED \/ c = "U+0674"

\* the codepoints the extension rules of clean_hw_lat look for
LatPatterns == {lat_swaps[i][1][1] : i \in 1..Len(lat_swaps)}

CheckAlphabet == {"U+0627", "a", "U+200D"}

\* the rows of a batch; the id of a row is its position
Batches ==
    UNION {[1..n -> SeqsUpTo(CheckAlphabet, MaxRowLen)] : n \in 0..MaxRows}

\* the test opens the table and starts to iterate
StartCheck ==
    /\ chk = "idle" /\ op = "none"
    /\ \E field \in {"headword_persian", "headword_full"}, b \in Batches :
          /\ op' = field
          /\ batch' = b
    /\ ei' = 1
    /\ ci' = 1
    /\ chk' = "running"
    /\ UNCHANGED <<mainVars, arg, res, rendered, entryVars, reported>>

\* the assert! holds for the character under check
CheckCharPasses ==
    /\ chk = "running"
    /\ ei <= Len(batch) /\ ci <= Len(batch[ei])
    /\ Allowed(op, batch[ei][ci])
    /\ ci' = ci + 1
    /\ UNCHANGED <<mainVars, callVars, entryVars, batch, ei, reported, chk>>

\* the failing assert! written to collect the violation and go on
CheckCharCollects ==
    /\ chk = "running"
    /\ ei <= Len(batch) /\ ci <= Len(batch[ei])
    /\ ~Allowed(op, batch[ei][ci])
    /\ reported' = Append(reported, <<ei, batch[ei][ci]>>)
    /\ ci' = ci + 1
    /\ UNCHANGED <<mainVars, callVars, entryVars, batch, ei, chk>>

\* the assert! fails: the test panics with the row id and the codepoint
CheckCharFails ==
    /\ chk = "running"
    /\ ei <= Len(batch) /\ ci <= Len(batch[ei])
    /\ ~Allowed(op, batch[ei][ci])
    /\ reported' = Append(reported, <<ei, batch[ei][ci]>>)
    /\ chk' = "panicked"
    /\ UNCHANGED <<mainVars, callVars, entryVars, batch, ei, ci>>

\* the characters of the row are exhausted: on to the next row
NextRow ==
    /\ chk = "running"
    /\ ei <= Len(batch) /\ ci > Len(batch[ei])
    /\ ei' = ei + 1
    /\ ci' = 1
    /\ UNCHANGED <<mainVars, callVars, entryVars, batch, reported, chk>>

\* the rows are exhausted: the test passes
FinishCheck ==
    /\ chk = "running"
    /\ ei > Len(batch)
    /\ chk' = "passed"
    /\ UNCHANGED <<mainVars, callVars, entryVars, batch, ei, ci, reported>>

NextCheck ==
    \/ StartCheck
    \/ CheckCharPasses
    \/ CheckCharFails
    \/ NextRow
    \/ FinishCheck

SpecCheck == InitIdle /\ [][NextCheck]_vars

\* the (row, position) pairs of the batch whose character is outside the
\* allow-list of the field under test
Offending ==
    {p \in (1..Len(batch)) \X (1..MaxRowLen + 1) :
        p[2] <= Len(batch[p[1]]) /\ ~Allowed(op, batch[p[1]][p[2]])}

\* p comes before q in the order of the walk
Before(p, q) == p[1] < q[1] \/ (p[1] = q[1] /\ p[2] < q[2])

-----------------------------------------------------------------------------
(* SpecRender: pandoc() applied to one snippet, over the outputs the       *)
(* renderer can write.  Each behaviour makes one call.                     *)

\* longest enumerated renderer output
MaxOutLen == 4

RenderAlphabet == {",", " ", "\n", "x"}

RenderOutputs == SeqsUpTo(RenderAlphabet, MaxOutLen)

RenderOutcomes ==
    {RenderOutcome("exited", TRUE, TRUE, out) : out \in RenderOutputs}
    \cup {RenderOutcome("spawn_error", FALSE, FALSE, <<>>),
          RenderOutcome("exited", TRUE, FALSE, <<>>)}

CallPandocOnOutput ==
    /\ op = "none" /\ pc = "idle"
    /\ \E o \in RenderOutcomes :
          LET r == pandoc(<<"x">>, o)
          IN  /\ op' = "pandoc"
              /\ arg' = <<"x">>
              /\ res' = r.out
              /\ rendered' = rendered \o r.calls
    /\ UNCHANGED <<mainVars, entryVars, checkVars>>

NextRender == CallPandocOnOutput

SpecRender == InitIdle /\ [][NextRender]_vars

\* what the renderer wrote on the call made
Stdout == rendered[1].outcome.stdout

\* t has whitespace neither at its start nor at its end
NoEdgeWhitespace(t) ==
    t # <<>> => (t[1] \notin WhiteSpace /\ t[Len(t)] \notin WhiteSpace)

\* C20 as claimed: the text pandoc() returns has no leading or trailing
\* whitespace and does not start with a comma.
C20_NoEdgeWhitespaceNoComma ==
    (op = "pandoc" /\ res.tag = "Ok") =>
        /\ NoEdgeWhitespace(res.val)
        /\ res.val # <<>> => res.val[1] # ","

\* C20 amended: the text pandoc() returns is the renderer's output without
\* its surrounding whitespace, then without all the commas at its start,
\* then without the whitespace that followed them; it has no leading or
\* trailing whitespace, and it still starts with a comma exactly when the
\* commas removed were followed by whitespace and then another comma.
C20_LeadingCommasStripped ==
    (op = "pandoc" /\ res.tag = "Ok") =>
        LET t == trim(Stdout)
        IN  /\ NoEdgeWhitespace(res.val)
            /\ \E a \in 0..Len(t), b \in 0..Len(t) :
                  /\ a + b <= Len(t)
                  /\ \A i \in 1..a : t[i] = ","
                  /\ \A i \in (a + 1)..(a + b) : t[i] \in WhiteSpace
                  /\ res.val = SubSeq(t, a + b + 1, Len(t))
                  /\ (b = 0 /\ res.val # <<>>) => res.val[1] # ","
                  /\ a = 0 => b = 0

C20_Witness ==
    /\ op = "pandoc"
    /\ Stdout = <<",", " ", ",", "x">>
    /\ res = Ok(<<",", "x">>)

-----------------------------------------------------------------------------
(* SpecMain: main (main.rs:15-119).  The site and the database are outside *)
(* the program: what a page holds is chosen when it is fetched, the table  *)
(* is whatever an earlier run left, and a fetch or a query may fail.  The  *)
(* statements after the assert_eq! of line 87 (lines 89-107, the steps of  *)
(* SpecEntry) can only be entered from that assertion.                     *)

MAX_PAGE == 1539

BAD_PAGES == <<2, 41, 486, 520, 665, 666>>

\* most entries on a fetched page
MaxResults == 2

Jpg == <<".", "j", "p", "g">>

EntryHtmls == {<<"h">>, <<"g">>, <<"a">> \o Jpg}

\* what select_results can find on a page
SiteResults == SeqsUpTo(EntryHtmls, MaxResults)

\* a row of the entries table
Row(p, html) ==
    [page |-> p, raw_html |-> html, lang |-> "Unmarked (i.e., Persian)",
     headword_full |-> <<"h">>, headword_persian |-> <<"U+0647">>,
     headword_latin |-> <<"h">>, definitions |-> <<"d">>]

\* the tables an earlier run can have left
Tables ==
    {<<>>,
     <<Row(MIN_PAGE, <<"h">>)>>,
     <<Row(MIN_PAGE, <<"h">>), Row(MIN_PAGE, <<"g">>)>>,
     <<Row(MIN_PAGE, <<"h">>), Row(MIN_PAGE, <<"h">>)>>,
     <<Row(MIN_PAGE, <<"h">>), Row(MIN_PAGE + 2, <<"a">> \o Jpg)>>}

InitMain ==
    /\ op = "none"
    /\ arg = None
    /\ res = NoResult
    /\ rendered = <<>>
    /\ pc = "main_start"
    /\ entry = NoEntry
    /\ db \in Tables
    /\ batch = <<>>
    /\ ei = 0
    /\ ci = 0
    /\ reported = <<>>
    /\ chk = "idle"
    /\ page = 0
    /\ results = <<>>
    /\ ri = 0
    /\ nfetched = 0
    /\ lastFetched = 0

\* count_page_entries: SELECT COUNT(*) FROM entries WHERE page = ?
count_page_entries(conn, p) ==
    Cardinality({i \in 1..Len(conn) : conn[i].page = p})

\* main.rs:71-76: SELECT COUNT(*) FROM entries WHERE raw_html = ?
count_raw_html(conn, html) ==
    Cardinality({i \in 1..Len(conn) : conn[i].raw_html = html})

\* str::contains
contains(s, pat) == Occurrences(s, pat) # {}

\* the end of one iteration of the loop over the pages
AfterPage ==
    IF page = MAX_PAGE
    THEN /\ pc' = "done"
         /\ res' = Ok(<<>>)
         /\ page' = page
    ELSE /\ pc' = "page_start"
         /\ res' = res
         /\ page' = page + 1

\* main.rs:17-21: the connection is opened, the table ensured (CREATE TABLE
\* IF NOT EXISTS changes no row), and the loop starts at MIN_PAGE
EnsureTable ==
    /\ pc = "main_start"
    /\ op' = "ensure_table"
    /\ \E ok \in BOOLEAN :
          IF ok
          THEN /\ pc' = "page_start"
               /\ page' = MIN_PAGE
               /\ res' = res
          ELSE /\ pc' = "returned_err"
               /\ page' = page
               /\ res' = Err("sqlite")
    /\ UNCHANGED <<arg, rendered, entry, db, checkVars, results, ri,
                   nfetched, lastFetched>>

\* main.rs:26-29
SkipBadPage ==
    /\ pc = "page_start"
    /\ \E i \in 1..Len(BAD_PAGES) : BAD_PAGES[i] = page
    /\ op' = "skip_page"
    /\ AfterPage
    /\ UNCHANGED <<arg, rendered, entry, db, checkVars, results, ri,
                   nfetched, lastFetched>>

\* a loop that fetches a page whether it is listed in BAD_PAGES or not
FetchPageAny ==
    /\ pc = "page_start"
    /\ op' = "fetch_html"
    /\ \E r \in SiteResults :
          /\ results' = r
          /\ nfetched' = nfetched + 1
          /\ lastFetched' = page
          /\ pc' = "fetched"
          /\ res' = res
    /\ UNCHANGED <<arg, rendered, entry, db, checkVars, page, ri>>

\* main.rs:31-40: fetch_html and select_results; the request may fail
FetchPage ==
    /\ pc = "page_start"
    /\ ~\E i \in 1..Len(BAD_PAGES) : BAD_PAGES[i] = page
    /\ op' = "fetch_html"
    /\ \/ \E r \in SiteResults :
             /\ results' = r
             /\ nfetched' = nfetched + 1
             /\ lastFetched' = page
             /\ pc' = "fetched"
             /\ res' = res
       \/ /\ pc' = "returned_err"
          /\ res' = Err("reqwest")
          /\ UNCHANGED <<results, nfetched, lastFetched>>
    /\ UNCHANGED <<arg, rendered, entry, db, checkVars, page, ri>>

\* main.rs:43-47: count_page_entries and the assert_eq! on the two counts
CountPageEntries ==
    /\ pc = "fetched"
    /\ op' = "count_page_entries"
    /\ \E ok \in BOOLEAN :
          IF ~ok
          THEN /\ pc' = "returned_err"
               /\ res' = Err("sqlite")
               /\ ri' = ri
          ELSE LET results_count == Len(results)
                   db_count == count_page_entries(db, page)
               IN  IF db_count = results_count
                   THEN /\ pc' = "entries"
                        /\ res' = res
                        /\ ri' = 1
                   ELSE /\ pc' = "panicked"
                        /\ res' = Panic("assertion failed")
                        /\ ri' = ri
    /\ UNCHANGED <<arg, rendered, entry, db, checkVars, page, results,
                   nfetched, lastFetched>>

\* main.rs:57-69
SkipJpgEntry ==
    /\ pc = "entries"
    /\ ri <= Len(results)
    /\ contains(results[ri], Jpg)
    /\ op' = "skip_entry"
    /\ arg' = results[ri]
    /\ ri' = ri + 1
    /\ UNCHANGED <<res, rendered, pc, entry, db, checkVars, page, results,
                   nfetched, lastFetched>>

\* the loop as it was while scraping: an entry without a row is inserted
MatchEntryInserting ==
    /\ pc = "entries"
    /\ ri <= Len(results)
    /\ ~contains(results[ri], Jpg)
    /\ op' = "match_entry"
    /\ arg' = results[ri]
    /\ LET html == results[ri]
           count == count_raw_html(db, html)
       IN  IF count = 1
           THEN /\ ri' = ri + 1
                /\ UNCHANGED <<res, pc, entry, db>>
           ELSE /\ ri' = ri + 1
                /\ entry' = [entry EXCEPT !.built = TRUE]
                /\ db' = Append(db, Row(page, html))
                /\ UNCHANGED <<res, pc>>
    /\ UNCHANGED <<rendered, checkVars, page, results, nfetched, lastFetched>>

\* main.rs:71-87: the count of the rows with the same raw_html, the
\* `continue` on a count of 1 and the assert_eq!(count, 1) on any other
MatchEntry ==
    /\ pc = "entries"
    /\ ri <= Len(results)
    /\ ~contains(results[ri], Jpg)
    /\ op' = "match_entry"
    /\ arg' = results[ri]
    /\ \E ok \in BOOLEAN :
          IF ~ok
          THEN /\ pc' = "returned_err"
               /\ res' = Err("sqlite")
               /\ ri' = ri
          ELSE LET html == results[ri]
                   count == count_raw_html(db, html)
               IN  IF count = 1
                   THEN /\ ri' = ri + 1
                        /\ UNCHANGED <<res, pc>>
                   ELSE /\ pc' = "panicked"
                        /\ res' = Panic(<<"assertion failed", html>>)
                        /\ ri' = ri
    /\ UNCHANGED <<rendered, entry, db, checkVars, page, results, nfetched,
                   lastFetched>>

\* main.rs:108-113: the entries of the page are exhausted
NextPage ==
    /\ pc = "entries"
    /\ ri > Len(results)
    /\ op' = "next_page"
    /\ AfterPage
    /\ UNCHANGED <<arg, rendered, entry, db, checkVars, results, ri,
                   nfetched, lastFetched>>

NextMain ==
    \/ EnsureTable
    \/ SkipBadPage
    \/ FetchPage
    \/ CountPageEntries
    \/ SkipJpgEntry
    \/ MatchEntry
    \/ NextPage

SpecMain == InitMain /\ [][NextMain]_vars

\* the positions of main in the statements after the assert_eq! of line 87
PerEntryPositions ==
    {"get_lang", "select_full_headword", "headword_parts", "except_headword",
     "build_entry", "insert_row", "inserted"}

\* main has just dealt with the entry `arg` of the fetched page
EntryHandled == op \in {"skip_entry", "match_entry"}

\* C21 as claimed: an entry is skipped (its html contains ".jpg"), or has
\* exactly one row with the same raw_html and the loop goes on, or the run
\* aborts on the assertion; nothing else happens to an entry.
C21_SkipMatchOrAssert ==
    EntryHandled =>
        \/ op = "skip_entry" /\ contains(arg, Jpg) /\ pc = "entries"
        \/ /\ op = "match_entry"
           /\ count_raw_html(db, arg) = 1
           /\ pc = "entries"
        \/ /\ op = "match_entry"
           /\ count_raw_html(db, arg) # 1
           /\ pc = "panicked"
           /\ res.tag = "Panic"

\* C21 amended: the statements after the check of the match count are
\* never reached: an entry is skipped (".jpg"), or has exactly one row with
\* the same raw_html and the loop goes on, or the run aborts on the
\* assertion, or the query for the count fails and main returns that
\* error; main never builds an Entry, never calls insert_row, and no step
\* of main changes the entries table.
C21_EntryCodeUnreachable ==
    /\ [](/\ pc \notin PerEntryPositions
          /\ ~entry.built
          /\ op # "insert_row"
          /\ EntryHandled =>
                \/ op = "skip_entry" /\ contains(arg, Jpg) /\ pc = "entries"
                \/ /\ op = "match_entry"
                   /\ ~contains(arg, Jpg)
                   /\ \/ count_raw_html(db, arg) = 1 /\ pc = "entries"
                      \/ /\ count_raw_html(db, arg) # 1
                         /\ pc = "panicked"
                         /\ res.tag = "Panic"
                      \/ pc = "returned_err" /\ res = Err("sqlite"))
    /\ [][db' = db]_vars

\* an entry without a row of its own ends the run on the assertion
C21_Witness ==
    /\ op = "match_entry"
    /\ count_raw_html(db, arg) = 0
    /\ pc = "panicked"
    /\ ri = 2

\* the pages listed in BAD_PAGES
BadPages == {BAD_PAGES[i] : i \in 1..Len(BAD_PAGES)}

\* how many pages of MIN_PAGE..p are not listed in BAD_PAGES
GoodUpTo(p) ==
    p - MIN_PAGE + 1 - Cardinality({b \in BadPages : MIN_PAGE <= b /\ b <= p})

\* C22: main goes through MIN_PAGE..MAX_PAGE in ascending order, fetches no
\* page of BAD_PAGES and, as long as the run has not ended early, every
\* other page once; BAD_PAGES lists 6 distinct pages of the range, and a
\* run that comes to its end has fetched 1533 pages.
C22_PagesFetched ==
    /\ Len(BAD_PAGES) = 6 /\ Cardinality(BadPages) = 6
    /\ \A b \in BadPages : MIN_PAGE <= b /\ b <= MAX_PAGE
    /\ pc \in {"page_start", "fetched", "entries", "done"} =>
          (MIN_PAGE <= page /\ page <= MAX_PAGE)
    /\ lastFetched \notin BadPages
    /\ nfetched > 0 => (MIN_PAGE <= lastFetched /\ lastFetched <= page)
    /\ nfetched = IF lastFetched = 0 THEN 0 ELSE GoodUpTo(lastFetched)
    /\ pc = "page_start" => nfetched = GoodUpTo(page - 1)
    /\ pc \in {"fetched", "entries"} =>
          (lastFetched = page /\ nfetched = GoodUpTo(page))
    /\ pc = "done" =>
          /\ page = MAX_PAGE
          /\ nfetched = MAX_PAGE - MIN_PAGE + 1 - 6
          /\ nfetched = 1533

C22_Witness ==
    /\ pc = "done"
    /\ nfetched = 1533
    /\ lastFetched = MAX_PAGE
    /\ res = Ok(<<>>)

=============================================================================
